---- MODULE Spec2Model ----
(***************************************************************************)
(* A model of BN_ATI_REPORT/scripts/build_report.py: the report build that *)
(* aggregates table B, left-joins it onto table C, matches the tracking    *)
(* numbers of table A inside the summaries of the joined records, splits   *)
(* the matches into weak and strong, and writes the SQLite artifact.       *)
(*                                                                         *)
(* A Python str is a sequence of one-character strings, so that lower(),   *)
(* strip(), concatenation, sorting and substring search are computed.      *)
(* A float is a record [k, v]: k = "fin" with the integer v, or "pinf",    *)
(* "ninf", "nan" (v = 0).  A DataFrame is a sequence of records.           *)
(***************************************************************************)
EXTENDS Integers, Sequences, FiniteSets

(* ---------------------------- characters ------------------------------ *)

UpperLetters ==
  << "A","B","C","D","E","F","G","H","I","J","K","L","M",
     "N","O","P","Q","R","S","T","U","V","W","X","Y","Z" >>

LowerLetters ==
  << "a","b","c","d","e","f","g","h","i","j","k","l","m",
     "n","o","p","q","r","s","t","u","v","w","x","y","z" >>

Digits == << "0","1","2","3","4","5","6","7","8","9" >>

\* The characters of the model in code-point order.
CodePoints ==
  << " ", "+", "-" >> \o Digits \o << ";" >> \o UpperLetters
    \o << "[", "]" >> \o LowerLetters

CharSet == { CodePoints[i] : i \in 1..Len(CodePoints) }

\* ord(c), up to a monotone renumbering
Ord == [ c \in CharSet |-> CHOOSE i \in 1..Len(CodePoints) : CodePoints[i] = c ]

LowerChar ==
  [ c \in CharSet |->
      IF \E i \in 1..26 : UpperLetters[i] = c
        THEN LowerLetters[CHOOSE i \in 1..26 : UpperLetters[i] = c]
        ELSE c ]

DigitVal == [ c \in { Digits[i] : i \in 1..10 } |->
                (CHOOSE i \in 1..10 : Digits[i] = c) - 1 ]

IsSpace(c) == c = " "

(* ------------------------------ strings ------------------------------- *)

\* str.lower()
Lower(s) == [ i \in 1..Len(s) |-> LowerChar[s[i]] ]

\* ordinary str comparison s < t
LexLess(s, t) ==
  \/ /\ Len(s) < Len(t)
     /\ \A i \in 1..Len(s) : s[i] = t[i]
  \/ \E k \in 1..Len(s) :
       /\ k <= Len(t)
       /\ \A i \in 1..(k - 1) : s[i] = t[i]
       /\ Ord[s[k]] < Ord[t[k]]

\* str.strip()
Strip(s) ==
  LET keep == { i \in 1..Len(s) : ~IsSpace(s[i]) }
  IN  IF keep = {} THEN << >>
      ELSE LET lo == CHOOSE i \in keep : \A j \in keep : i <= j
               hi == CHOOSE i \in keep : \A j \in keep : j <= i
           IN  SubSeq(s, lo, hi)

\* t occurs in s at position i
MatchesAt(s, t, i) ==
  /\ i >= 1
  /\ i + Len(t) - 1 <= Len(s)
  /\ \A j \in 1..Len(t) : s[i + j - 1] = t[j]

\* t in s
IsSubstring(t, s) == \E i \in 1..(Len(s) + 1) : MatchesAt(s, t, i)

\* sorted(S) for a set S of strings
RECURSIVE SortedStrings(_)
SortedStrings(S) ==
  IF S = {} THEN << >>
  ELSE LET m == CHOOSE x \in S : \A y \in S : y = x \/ LexLess(x, y)
       IN  << m >> \o SortedStrings(S \ {m})

\* sep.join(q)
RECURSIVE JoinWith(_, _)
JoinWith(sep, q) ==
  IF Len(q) = 0 THEN << >>
  ELSE IF Len(q) = 1 THEN q[1]
  ELSE q[1] \o sep \o JoinWith(sep, Tail(q))

(* ------------------------------ numbers ------------------------------- *)

Fin(n) == [k |-> "fin", v |-> n]
PosInf == [k |-> "pinf", v |-> 0]
NegInf == [k |-> "ninf", v |-> 0]
NaN == [k |-> "nan", v |-> 0]

IsFinite(x) == x.k = "fin"

\* IEEE addition of two floats
NumAdd(x, y) ==
  IF x.k = "nan" \/ y.k = "nan" THEN NaN
  ELSE IF x.k = "fin" /\ y.k = "fin" THEN Fin(x.v + y.v)
  ELSE IF x.k = "fin" THEN y
  ELSE IF y.k = "fin" THEN x
  ELSE IF x.k = y.k THEN x
  ELSE NaN

NumNeg(x) ==
  IF x.k = "fin" THEN Fin(0 - x.v)
  ELSE IF x.k = "pinf" THEN NegInf
  ELSE IF x.k = "ninf" THEN PosInf
  ELSE NaN

IsDigits(s) == Len(s) > 0 /\ \A i \in 1..Len(s) : s[i] \in DOMAIN DigitVal

RECURSIVE DecimalValue(_)
DecimalValue(s) ==
  IF Len(s) = 0 THEN 0
  ELSE 10 * DecimalValue(SubSeq(s, 1, Len(s) - 1)) + DigitVal[s[Len(s)]]

\* an unsigned numeric literal: digits, "inf"/"infinity"/"nan" in any case
ParseUnsigned(s) ==
  IF IsDigits(s) THEN Fin(DecimalValue(s))
  ELSE IF Lower(s) \in { <<"i","n","f">>,
                         <<"i","n","f","i","n","i","t","y">> } THEN PosInf
  ELSE NaN

\* pd.to_numeric(x, errors="coerce") of one string cell: NaN when unparseable
ToNumeric(s) ==
  IF Len(s) > 0 /\ s[1] = "-" THEN NumNeg(ParseUnsigned(Tail(s)))
  ELSE IF Len(s) > 0 /\ s[1] = "+" THEN ParseUnsigned(Tail(s))
  ELSE ParseUnsigned(s)

\* .fillna(0.0) of one float cell
FillNa0(x) == IF x.k = "nan" THEN Fin(0) ELSE x

(* --------------------------- table helpers ---------------------------- *)

\* drop_duplicates() that keeps every row
KeepAll(q) == q

\* DataFrame.drop_duplicates(): the first of each group of equal rows is kept
DropDuplicates(q) ==
  LET keep(i) == \A j \in 1..(i - 1) : q[j] # q[i]
      RECURSIVE build(_)
      build(i) == IF i = 0 THEN << >>
                  ELSE IF keep(i) THEN Append(build(i - 1), q[i])
                  ELSE build(i - 1)
  IN  build(Len(q))

\* pd.concat(blocks, ignore_index=True)
RECURSIVE Concat(_)
Concat(blocks) ==
  IF Len(blocks) = 0 THEN << >> ELSE blocks[1] \o Concat(Tail(blocks))

Range(q) == { q[i] : i \in 1..Len(q) }

(* ------------------------- AggregationStage --------------------------- *)

\* line 97: the metric column parsed, unparseable cells filled with 0.0
ParseMetric(csv) ==
  [ i \in 1..Len(csv) |->
      [ owner_org |-> csv[i].owner_org,
        RequestNumber |-> csv[i].RequestNumber,
        metric |-> FillNa0(ToNumeric(csv[i].metric)),
        UniqueIdentifier |-> csv[i].UniqueIdentifier ] ]

\* Series.sum() of one group, in row order
RECURSIVE SeriesSum(_)
SeriesSum(series) ==
  IF Len(series) = 0 THEN Fin(0)
  ELSE NumAdd(SeriesSum(SubSeq(series, 1, Len(series) - 1)), series[Len(series)])

\* agg_unique_identifiers with the values tested stripped but kept unstripped
agg_unique_identifiers_unstripped(series) ==
  LET nonEmpty(x) == Strip(x) # << >>
      vals == SelectSeq(series, nonEmpty)
  IN  IF Len(vals) > 0
        THEN JoinWith(<< ";", " " >>, SortedStrings(Range(vals)))
        ELSE << >>

agg_unique_identifiers(series) ==
  LET stripped == [ i \in 1..Len(series) |-> Strip(series[i]) ]
      nonEmpty(x) == x # << >>
      vals == SelectSeq(stripped, nonEmpty)
  IN  IF Len(vals) > 0
        THEN JoinWith(<< ";", " " >>, SortedStrings(Range(vals)))
        ELSE << >>

\* the order groupby gives its groups: ascending (owner_org, Request Number)
KeyLess(a, b) ==
  \/ LexLess(a[1], b[1])
  \/ a[1] = b[1] /\ LexLess(a[2], b[2])

RECURSIVE SortedKeys(_)
SortedKeys(S) ==
  IF S = {} THEN << >>
  ELSE LET m == CHOOSE x \in S : \A y \in S : y = x \/ KeyLess(x, y)
       IN  << m >> \o SortedKeys(S \ {m})

\* lines 98-104: one row per exact-case (owner_org, Request Number) group
Aggregate(df) ==
  LET keys == SortedKeys({ << df[i].owner_org, df[i].RequestNumber >> :
                             i \in 1..Len(df) })
      inGroup(k) == LET T(r) == r.owner_org = k[1] /\ r.RequestNumber = k[2]
                    IN  SelectSeq(df, T)
      column(g, f) == [ i \in 1..Len(g) |-> g[i][f] ]
  IN  [ n \in 1..Len(keys) |->
          [ owner_org |-> keys[n][1],
            RequestNumber |-> keys[n][2],
            informal_requests_sum |->
              SeriesSum(column(inGroup(keys[n]), "metric")),
            unique_identifiers |->
              agg_unique_identifiers(column(inGroup(keys[n]), "UniqueIdentifier")),
            request_number_lc |-> Lower(keys[n][2]) ] ]

(* ----------------------------- JoinStage ------------------------------ *)

\* the missing-value marker a left merge leaves in a text column; no string
NA == << "<NA>" >>

\* line 110
CColumns == { "owner_org", "request_number", "summary_en", "summary_fr" }

\* lines 110-112: a column absent from the downloaded C is added as ""
CCell(row, c, cols) == IF c \in cols THEN row[c] ELSE << >>

\* lines 110-113; cols are the columns the downloaded table holds
WithRequestNumberLc(csv, cols) ==
  [ i \in 1..Len(csv) |->
      [ owner_org |-> CCell(csv[i], "owner_org", cols),
        request_number |-> CCell(csv[i], "request_number", cols),
        summary_en |-> CCell(csv[i], "summary_en", cols),
        summary_fr |-> CCell(csv[i], "summary_fr", cols),
        request_number_lc |-> Lower(CCell(csv[i], "request_number", cols)) ] ]

MergedRow(c, sum, uid) ==
  [ owner_org |-> c.owner_org,
    request_number |-> c.request_number,
    summary_en |-> c.summary_en,
    summary_fr |-> c.summary_fr,
    request_number_lc |-> c.request_number_lc,
    informal_requests_sum |-> sum,
    unique_identifiers |-> uid ]

\* the merge keyed on the request number as written, not lowercased
MergeMatchesExactCase(c, agg) ==
  LET T(g) == /\ g.owner_org = c.owner_org
              /\ g.RequestNumber = c.request_number
  IN  SelectSeq(agg, T)

\* the right rows a left row is merged with, in the right table's order
MergeMatches(c, agg) ==
  LET T(g) == /\ g.owner_org = c.owner_org
              /\ g.request_number_lc = c.request_number_lc
  IN  SelectSeq(agg, T)

\* lines 115-119: dfC.merge(dfB_agg, on=[owner_org, request_number_lc], how="left")
RECURSIVE MergeLeft(_, _)
MergeLeft(left, agg) ==
  IF Len(left) = 0 THEN << >>
  ELSE LET c == left[1]
           m == MergeMatches(c, agg)
           rows == IF Len(m) = 0
                     THEN << MergedRow(c, NaN, NA) >>
                     ELSE [ j \in 1..Len(m) |->
                              MergedRow(c, m[j].informal_requests_sum,
                                        m[j].unique_identifiers) ]
       IN  rows \o MergeLeft(Tail(left), agg)

\* lines 122-124: the fills and the haystack column
FinishJoin(merged) ==
  [ i \in 1..Len(merged) |->
      [ owner_org |-> merged[i].owner_org,
        request_number |-> merged[i].request_number,
        summary_en |-> merged[i].summary_en,
        summary_fr |-> merged[i].summary_fr,
        request_number_lc |-> merged[i].request_number_lc,
        informal_requests_sum |-> FillNa0(merged[i].informal_requests_sum),
        unique_identifiers |->
          IF merged[i].unique_identifiers = NA THEN << >>
          ELSE merged[i].unique_identifiers,
        haystack |->
          Lower(merged[i].summary_en \o << " " >> \o merged[i].summary_fr) ] ]

(* ----------------------------- MatchStage ----------------------------- *)

\* line 134
WithTnLc(csv) ==
  [ i \in 1..Len(csv) |->
      [ owner_org |-> csv[i].owner_org,
        tracking_number |-> csv[i].tracking_number,
        tn_lc |-> Lower(csv[i].tracking_number) ] ]

\* line 139: sorted(set(dfA.owner_org) & set(dfBC.owner_org))
CommonOrgs(a, bc) ==
  SortedStrings({ a[i].owner_org : i \in 1..Len(a) }
                  \cap { bc[i].owner_org : i \in 1..Len(bc) })

\* the identifier pairs of every owner, not only of org
AOrgAnyOwner(a, org) ==
  DropDuplicates([ i \in 1..Len(a) |->
                     [ tn_lc |-> a[i].tn_lc,
                       tracking_number |-> a[i].tracking_number ] ])

\* lines 143-147: the owner's distinct (tn_lc, tracking_number) pairs, in A's order
AOrg(a, org) ==
  LET T(r) == r.owner_org = org
      mine == SelectSeq(a, T)
  IN  DropDuplicates([ i \in 1..Len(mine) |->
                         [ tn_lc |-> mine[i].tn_lc,
                           tracking_number |-> mine[i].tracking_number ] ])

\* line 151: dict(zip(tn_lc, tracking_number)); a later pair overwrites an earlier
Lut(aorg) ==
  [ k \in { aorg[i].tn_lc : i \in 1..Len(aorg) } |->
      LET last == CHOOSE i \in 1..Len(aorg) :
                    /\ aorg[i].tn_lc = k
                    /\ \A j \in (i + 1)..Len(aorg) : aorg[j].tn_lc # k
      IN  aorg[last].tracking_number ]

\* lines 152-156: the owner's joined records
BcOrg(bc, org) ==
  LET T(r) == r.owner_org = org
      mine == SelectSeq(bc, T)
  IN  [ i \in 1..Len(mine) |->
          [ owner_org |-> mine[i].owner_org,
            request_number |-> mine[i].request_number,
            informal_requests_sum |-> mine[i].informal_requests_sum,
            unique_identifiers |-> mine[i].unique_identifiers,
            summary_en |-> mine[i].summary_en,
            summary_fr |-> mine[i].summary_fr,
            haystack |-> mine[i].haystack ] ]

\* the owner's lowercased identifiers, the empty ones kept
TnListUnfiltered(aorg) == [ i \in 1..Len(aorg) |-> aorg[i].tn_lc ]

\* line 160: the owner's non-empty lowercased identifiers
TnList(aorg) ==
  LET col == [ i \in 1..Len(aorg) |-> aorg[i].tn_lc ]
      nonEmpty(t) == t # << >>
  IN  SelectSeq(col, nonEmpty)

\* items[i:i+size] for i in range(0, len(items), size)
RECURSIVE iter_chunks(_, _)
iter_chunks(items, size) ==
  IF Len(items) = 0 THEN << >>
  ELSE IF Len(items) <= size THEN << items >>
  ELSE << SubSeq(items, 1, size) >>
         \o iter_chunks(SubSeq(items, size + 1, Len(items)), size)

\* a match only where the identifier stands as a whole space-delimited token
ContainsAnyToken(hay, chunk) ==
  \E n \in 1..Len(chunk) : \E i \in 1..(Len(hay) + 1) :
    /\ MatchesAt(hay, chunk[n], i)
    /\ i = 1 \/ hay[i - 1] = " "
    /\ i + Len(chunk[n]) > Len(hay) \/ hay[i + Len(chunk[n])] = " "

\* line 168: str.contains("(?:t1|t2|...)") on one haystack
ContainsAny(hay, chunk) ==
  \E n \in 1..Len(chunk) : IsSubstring(chunk[n], hay)

\* line 172: str.extract("((?:t1|t2|...))"): the leftmost position where an
\* alternative matches, and there the first alternative in pattern order
ExtractFirst(hay, chunk) ==
  LET hits == { i \in 1..(Len(hay) + 1) :
                  \E n \in 1..Len(chunk) : MatchesAt(hay, chunk[n], i) }
      pos == CHOOSE i \in hits : \A j \in hits : i <= j
      alt == CHOOSE n \in 1..Len(chunk) :
               /\ MatchesAt(hay, chunk[n], pos)
               /\ \A m \in 1..(n - 1) : ~MatchesAt(hay, chunk[m], pos)
  IN  chunk[alt]

\* the matched text emitted as it is, the lookup skipped
CanonicalLowercased(l, match_lc) == match_lc

\* line 173: _match_lc.map(lut).fillna(_match_lc)
Canonical(l, match_lc) ==
  IF match_lc \in DOMAIN l THEN l[match_lc] ELSE match_lc

\* lines 166-177: the block one chunk contributes (empty when no row matches)
ChunkBlock(bcorg, chunk, l) ==
  LET T(r) == ContainsAny(r.haystack, chunk)
      sub == SelectSeq(bcorg, T)
  IN  [ i \in 1..Len(sub) |->
          [ owner_org |-> sub[i].owner_org,
            tracking_number |-> Canonical(l, ExtractFirst(sub[i].haystack, chunk)),
            request_number |-> sub[i].request_number,
            informal_requests_sum |-> sub[i].informal_requests_sum,
            unique_identifiers |-> sub[i].unique_identifiers,
            summary_en |-> sub[i].summary_en,
            summary_fr |-> sub[i].summary_fr ] ]

\* lines 143-179 for one owner: the concatenation of its chunks' blocks
OwnerBlocks(a, bc, org, sz) ==
  LET aorg == AOrg(a, org)
      ch == iter_chunks(TnList(aorg), sz)
  IN  Concat([ n \in 1..Len(ch) |->
                 ChunkBlock(BcOrg(bc, org), ch[n], Lut(aorg)) ])

\* lines 138-190 as a function of the tables and the chunk size
MatchStage(a, bc, sz) ==
  LET os == CommonOrgs(a, bc)
  IN  DropDuplicates(Concat([ n \in 1..Len(os) |-> OwnerBlocks(a, bc, os[n], sz) ]))

(* ------------------------- ClassificationStage ------------------------ *)

\* line 35
WEAK_BN_VALUES ==
  { Lower(s) : s \in
      { << "c" >>, << "1" >>, << "0" >>, << "N","A" >>, << "n","a" >>, << "-" >>,
        << "R","E","D","A","C","T","E","D" >>,
        << "[","R","E","D","A","C","T","E","D","]" >>,
        << "T","B","D","-","P","M","-","0","0" >> } }

\* is_weak without the strip
is_weak_unstripped(v) == Lower(v) \in WEAK_BN_VALUES

\* lines 193-195
is_weak(v) == Lower(Strip(v)) \in WEAK_BN_VALUES

(* ------------------------------- schema ------------------------------- *)

\* line 91 (the columns are named as the fields of the model's B rows)
needB == { "owner_org", "RequestNumber", "metric", "UniqueIdentifier" }

\* line 130
needA == { "owner_org", "tracking_number" }

\* a schema check that finds nothing missing
MissingColumnsIgnored(need, cols) == { }

\* lines 92 and 131: [c for c in need if c not in df.columns]
MissingColumns(need, cols) == need \ cols

(* ------------------------------- inputs ------------------------------- *)

\* longest table of A, B and C rows the model downloads
MaxA == 2
MaxB == 2
MaxC == 2

\* line 32
TN_REGEX_CHUNK == 400

\* the chunk sizes the matching loop is run with: the program's own, under
\* which the tables of the model give one chunk per owner, and one identifier
\* per chunk, under which the loop of line 165 iterates
ChunkSizes == { 1, TN_REGEX_CHUNK }

OrgX == << "X" >>
OrgY == << "Y" >>

ARow(o, t) == [ owner_org |-> o, tracking_number |-> t ]
BRow(o, r, m, u) ==
  [ owner_org |-> o, RequestNumber |-> r, metric |-> m, UniqueIdentifier |-> u ]
CRow(o, r, en, fr) ==
  [ owner_org |-> o, request_number |-> r, summary_en |-> en, summary_fr |-> fr ]

ARows ==
  { ARow(OrgX, << "A","B" >>), ARow(OrgX, << "a","b" >>), ARow(OrgX, << "b" >>),
    ARow(OrgX, << " ","N","A" >>), ARow(OrgX, << >>), ARow(OrgY, << "b" >>) }

BRows ==
  { BRow(OrgX, << "R","1" >>, << "2" >>, << "b" >>),
    BRow(OrgX, << "R","1" >>, << "x" >>, << " ","a"," " >>),
    BRow(OrgX, << "R","1" >>, << "i","n","f" >>, << "b" >>),
    BRow(OrgX, << "R","1" >>, << "-","i","n","f" >>, << >>),
    BRow(OrgX, << "r","1" >>, << "3" >>, << "a" >>),
    BRow(OrgY, << "R","1" >>, << "3" >>, << "a" >>) }

CRowsMatch ==
  { CRow(OrgX, << "r","1" >>, << "x","A","B","y" >>, << >>),
    CRow(OrgX, << "r","1" >>, << "b" >>, << "N","A" >>),
    CRow(OrgY, << "r","1" >>, << "x","A","B","y" >>, << >>) }

CRowsJoin ==
  { CRow(OrgX, << "r","1" >>, << "x","A","B","y" >>, << >>),
    CRow(OrgX, << "R","1" >>, << "b" >>, << "N","A" >>),
    CRow(OrgX, << "r","2" >>, << "x","A","B","y" >>, << >>) }

\* the tables held fixed while the others vary
FixedA == << ARow(OrgX, << "A","B" >>), ARow(OrgX, << " ","N","A" >>) >>
FixedB == << BRow(OrgX, << "R","1" >>, << "2" >>, << "b" >>) >>
FixedC ==
  << CRow(OrgX, << "r","1" >>, << "x","A","B","y" >>, << "N","A" >>),
     CRow(OrgY, << "r","1" >>, << "b" >>, << >>) >>

Tables(rows, n) == UNION { [ 1..k -> rows ] : k \in 0..n }

(* ------------------------------- state -------------------------------- *)

VARIABLES
  pc,              \* the place main() has reached
  csvA, csvB, csvC,\* what the three downloads return
  size,            \* the chunk size of the matching loop
  dfB, dfB_agg, dfC, dfBC, dfA,
  orgs, oi,        \* the owners of the loop of line 142 and the current one
  a_org, lut, bc_org, tn_list,
  chunks, ci,      \* the chunks of the loop of line 165 and the current one
  matched_blocks, results,
  df_out, df_weak, df_strong,
  strong_matches, weak_matches, \* the rows of the two SQLite tables
  counts_common,
  colsA, colsB, colsC, \* the columns the three downloaded tables hold
  raised,          \* the exception main() ended with, "" while there is none
  data_sqlite,     \* docs/data.sqlite: "absent", "old" (of an earlier build),
                   \* "deleted" or "new" (deleted, written by this build)
  index_html,      \* docs/index.html, likewise
  dl_pc,           \* download_csv_df: "idle", "loop", "returned" or "raised"
  retries,         \* its parameter
  attempt_i,       \* the i of the loop of line 43
  last_err,
  attempts,        \* the outcomes of the attempts made so far, in order
  dl_return,       \* the table it returned
  dl_raise,        \* the exception it raised
  slept,           \* the seconds slept at line 56
  ar_pc,           \* down_files.py: the line it has reached, "idle" or "end"
  today, last_day, \* last_day is a date after line 6, a string after line 7
  ymd,             \* << y, m, d >> of line 8
  last_month,
  old_urls         \* old_download, old_visit, old_info, old_province, old_country

\* the state of a call of download_csv_df
download ==
  << dl_pc, retries, attempt_i, last_err, attempts, dl_return, dl_raise, slept >>

\* the state of down_files.py
archive == << ar_pc, today, last_day, ymd, last_month, old_urls >>

\* what no step of main() changes
outside == << colsA, colsB, colsC, download, archive >>

vars ==
  << pc, csvA, csvB, csvC, size, dfB, dfB_agg, dfC, dfBC, dfA, orgs, oi,
     a_org, lut, bc_org, tn_list, chunks, ci, matched_blocks, results,
     df_out, df_weak, df_strong, strong_matches, weak_matches, counts_common,
     raised, data_sqlite, index_html, outside >>

\* what main() reads and writes
pipeline ==
  << pc, csvA, csvB, csvC, size, dfB, dfB_agg, dfC, dfBC, dfA, orgs, oi,
     a_org, lut, bc_org, tn_list, chunks, ci, matched_blocks, results,
     df_out, df_weak, df_strong, strong_matches, weak_matches, counts_common,
     raised, data_sqlite, index_html, colsA, colsB, colsC >>

NoCounts ==
  [ A_rows |-> 0, B_rows |-> 0, C_rows |-> 0, BC_rows |-> 0,
    matches |-> 0, weak_matches |-> 0, strong_matches |-> 0 ]

\* main() entered and the template read (lines 81-86), nothing downloaded yet
Start ==
  /\ pc = "B"
  /\ raised = ""
  /\ dfB = << >> /\ dfB_agg = << >> /\ dfC = << >> /\ dfBC = << >> /\ dfA = << >>
  /\ orgs = << >> /\ oi = 1
  /\ a_org = << >> /\ lut = << >> /\ bc_org = << >> /\ tn_list = << >>
  /\ chunks = << >> /\ ci = 1
  /\ matched_blocks = << >> /\ results = << >>
  /\ df_out = << >> /\ df_weak = << >> /\ df_strong = << >>
  /\ strong_matches = << >> /\ weak_matches = << >>
  /\ counts_common = NoCounts

NoError == [ type |-> "None", last_err |-> "None" ]

\* no call of download_csv_df under way
NoDownload ==
  /\ dl_pc = "idle"
  /\ retries = 0 /\ attempt_i = 0 /\ last_err = "None"
  /\ attempts = << >> /\ dl_return = << >> /\ dl_raise = NoError
  /\ slept = 0

NoUrls ==
  [ old_download |-> << >>, old_visit |-> << >>, old_info |-> << >>,
    old_province |-> << >>, old_country |-> << >> ]

\* down_files.py not running
NoArchive ==
  /\ ar_pc = "idle"
  /\ today = << >> /\ last_day = << >> /\ ymd = << >>
  /\ last_month = << >> /\ old_urls = NoUrls

\* every B and C table against one A
InitJoin ==
  /\ csvA = FixedA
  /\ csvB \in Tables(BRows, MaxB)
  /\ csvC \in Tables(CRowsJoin, MaxC)
  /\ size = TN_REGEX_CHUNK
  /\ colsA = needA /\ colsB = needB /\ colsC = CColumns
  /\ data_sqlite = "old" /\ index_html = "old"
  /\ NoDownload /\ NoArchive
  /\ Start

\* every A and C table against one B
InitMatch ==
  /\ csvA \in Tables(ARows, MaxA)
  /\ csvB = FixedB
  /\ csvC \in Tables(CRowsMatch, MaxC)
  /\ size \in ChunkSizes
  /\ colsA = needA /\ colsB = needB /\ colsC = CColumns
  /\ data_sqlite = "old" /\ index_html = "old"
  /\ NoDownload /\ NoArchive
  /\ Start

\* one table each, with every choice of the columns they hold and of the
\* artifacts an earlier build left
InitSchema ==
  /\ csvA = FixedA
  /\ csvB = FixedB
  /\ csvC = FixedC
  /\ size = TN_REGEX_CHUNK
  /\ colsA \in SUBSET needA
  /\ colsB \in SUBSET needB
  /\ colsC \in SUBSET CColumns
  /\ data_sqlite \in { "absent", "old" }
  /\ index_html \in { "absent", "old" }
  /\ NoDownload /\ NoArchive
  /\ Start

Init == InitJoin \/ InitMatch \/ InitSchema

(* ------------------------------ actions ------------------------------- *)

\* lines 89-105: ValueError before any row is read when a column is missing
LoadB ==
  /\ pc = "B"
  /\ IF MissingColumns(needB, colsB) # { }
       THEN /\ raised' = "B missing columns"
            /\ pc' = "error"
            /\ UNCHANGED << dfB, dfB_agg >>
       ELSE /\ dfB' = ParseMetric(csvB)
            /\ dfB_agg' = Aggregate(dfB')
            /\ pc' = "C"
            /\ UNCHANGED raised
  /\ UNCHANGED << data_sqlite, index_html, outside >>
  /\ UNCHANGED << csvA, csvB, csvC, size, dfC, dfBC, dfA, orgs, oi, a_org, lut,
                  bc_org, tn_list, chunks, ci, matched_blocks, results, df_out,
                  df_weak, df_strong, strong_matches, weak_matches,
                  counts_common >>

\* lines 108-125; the merge always yields unique_identifiers (lines 120-121)
LoadC ==
  /\ pc = "C"
  /\ dfC' = WithRequestNumberLc(csvC, colsC)
  /\ UNCHANGED << raised, data_sqlite, index_html, outside >>
  /\ dfBC' = FinishJoin(MergeLeft(dfC', dfB_agg))
  /\ pc' = "A"
  /\ UNCHANGED << csvA, csvB, csvC, size, dfB, dfB_agg, dfA, orgs, oi, a_org,
                  lut, bc_org, tn_list, chunks, ci, matched_blocks, results,
                  df_out, df_weak, df_strong, strong_matches, weak_matches,
                  counts_common >>

\* lines 128-140: ValueError before any row is read when a column is missing
LoadA ==
  /\ pc = "A"
  /\ IF MissingColumns(needA, colsA) # { }
       THEN /\ raised' = "A missing columns"
            /\ pc' = "error"
            /\ UNCHANGED << dfA, results, orgs, oi >>
       ELSE /\ dfA' = WithTnLc(csvA)
            /\ results' = << >>
            /\ orgs' = CommonOrgs(dfA', dfBC)
            /\ oi' = 1
            /\ pc' = "org"
            /\ UNCHANGED raised
  /\ UNCHANGED << data_sqlite, index_html, outside >>
  /\ UNCHANGED << csvA, csvB, csvC, size, dfB, dfB_agg, dfC, dfBC, a_org, lut,
                  bc_org, tn_list, chunks, ci, matched_blocks, df_out, df_weak,
                  df_strong, strong_matches, weak_matches, counts_common >>

\* lines 142-164: the next owner; it is skipped when it has no identifier
\* pair, no joined record or no non-empty identifier
NextOrg ==
  /\ pc = "org"
  /\ UNCHANGED << raised, data_sqlite, index_html, outside >>
  /\ oi <= Len(orgs)
  /\ a_org' = AOrg(dfA, orgs[oi])
  /\ IF Len(a_org') = 0
       THEN /\ oi' = oi + 1
            /\ pc' = "org"
            /\ UNCHANGED << lut, bc_org, tn_list, chunks, ci, matched_blocks >>
       ELSE /\ lut' = Lut(a_org')
            /\ bc_org' = BcOrg(dfBC, orgs[oi])
            /\ IF Len(bc_org') = 0
                 THEN /\ oi' = oi + 1
                      /\ pc' = "org"
                      /\ UNCHANGED << tn_list, chunks, ci, matched_blocks >>
                 ELSE /\ tn_list' = TnList(a_org')
                      /\ IF Len(tn_list') = 0
                           THEN /\ oi' = oi + 1
                                /\ pc' = "org"
                                /\ UNCHANGED << chunks, ci, matched_blocks >>
                           ELSE /\ matched_blocks' = << >>
                                /\ chunks' = iter_chunks(tn_list', size)
                                /\ ci' = 1
                                /\ pc' = "chunk"
                                /\ oi' = oi
  /\ UNCHANGED << csvA, csvB, csvC, size, dfB, dfB_agg, dfC, dfBC, dfA, orgs,
                  results, df_out, df_weak, df_strong, strong_matches,
                  weak_matches, counts_common >>

\* lines 165-177: one chunk of the owner's identifiers
MatchChunk ==
  /\ pc = "chunk"
  /\ UNCHANGED << raised, data_sqlite, index_html, outside >>
  /\ ci <= Len(chunks)
  /\ LET block == ChunkBlock(bc_org, chunks[ci], lut)
     IN  matched_blocks' = IF Len(block) = 0 THEN matched_blocks
                           ELSE Append(matched_blocks, block)
  /\ ci' = ci + 1
  /\ UNCHANGED << pc, csvA, csvB, csvC, size, dfB, dfB_agg, dfC, dfBC, dfA, orgs,
                  oi, a_org, lut, bc_org, tn_list, chunks, results, df_out,
                  df_weak, df_strong, strong_matches, weak_matches,
                  counts_common >>

\* lines 178-179: the owner's blocks join the results
EndOrg ==
  /\ pc = "chunk"
  /\ UNCHANGED << raised, data_sqlite, index_html, outside >>
  /\ ci > Len(chunks)
  /\ results' = IF Len(matched_blocks) > 0
                  THEN Append(results, Concat(matched_blocks))
                  ELSE results
  /\ oi' = oi + 1
  /\ pc' = "org"
  /\ UNCHANGED << csvA, csvB, csvC, size, dfB, dfB_agg, dfC, dfBC, dfA, orgs,
                  a_org, lut, bc_org, tn_list, chunks, ci, matched_blocks, df_out,
                  df_weak, df_strong, strong_matches, weak_matches,
                  counts_common >>

\* lines 181-190: the union of the owners' results, full-row duplicates dropped
ConcatResults ==
  /\ pc = "org"
  /\ UNCHANGED << raised, data_sqlite, index_html, outside >>
  /\ oi > Len(orgs)
  /\ df_out' = IF Len(results) > 0 THEN DropDuplicates(Concat(results))
               ELSE << >>
  /\ pc' = "split"
  /\ UNCHANGED << csvA, csvB, csvC, size, dfB, dfB_agg, dfC, dfBC, dfA, orgs, oi,
                  a_org, lut, bc_org, tn_list, chunks, ci, matched_blocks,
                  results, df_weak, df_strong, strong_matches, weak_matches,
                  counts_common >>

\* lines 193-200
SplitWeakStrong ==
  /\ pc = "split"
  /\ UNCHANGED << raised, data_sqlite, index_html, outside >>
  /\ LET weak(r) == is_weak(r.tracking_number)
         strong(r) == ~is_weak(r.tracking_number)
     IN  /\ df_weak' = SelectSeq(df_out, weak)
         /\ df_strong' = SelectSeq(df_out, strong)
  /\ pc' = "write"
  /\ UNCHANGED << csvA, csvB, csvC, size, dfB, dfB_agg, dfC, dfBC, dfA, orgs, oi,
                  a_org, lut, bc_org, tn_list, chunks, ci, matched_blocks,
                  results, df_out, strong_matches, weak_matches, counts_common >>

\* lines 203-277: an existing file is deleted, the tables are created empty
\* and filled, the counts written
WriteSqlite ==
  /\ pc = "write"
  /\ data_sqlite' = "new"
  /\ UNCHANGED << raised, index_html, outside >>
  /\ strong_matches' = df_strong
  /\ weak_matches' = [ i \in 1..Len(df_weak) |->
                         [ owner_org |-> df_weak[i].owner_org,
                           tracking_number |-> df_weak[i].tracking_number ] ]
  /\ counts_common' =
       [ A_rows |-> Len(dfA), B_rows |-> Len(dfB), C_rows |-> Len(dfC),
         BC_rows |-> Len(dfBC), matches |-> Len(df_out),
         weak_matches |-> Len(df_weak), strong_matches |-> Len(df_strong) ]
  /\ pc' = "html"
  /\ UNCHANGED << csvA, csvB, csvC, size, dfB, dfB_agg, dfC, dfBC, dfA, orgs, oi,
                  a_org, lut, bc_org, tn_list, chunks, ci, matched_blocks,
                  results, df_out, df_weak, df_strong >>

\* lines 279-536: the loader is injected into the template and the page written
WriteHtml ==
  /\ pc = "html"
  /\ index_html' = "new"
  /\ pc' = "done"
  /\ UNCHANGED << raised, data_sqlite, outside >>
  /\ UNCHANGED << csvA, csvB, csvC, size, dfB, dfB_agg, dfC, dfBC, dfA, orgs, oi,
                  a_org, lut, bc_org, tn_list, chunks, ci, matched_blocks,
                  results, df_out, df_weak, df_strong, strong_matches,
                  weak_matches, counts_common >>

Next ==
  \/ LoadB
  \/ LoadC
  \/ LoadA
  \/ NextOrg
  \/ MatchChunk
  \/ EndOrg
  \/ ConcatResults
  \/ SplitWeakStrong
  \/ WriteSqlite
  \/ WriteHtml

Spec == Init /\ [][Next]_vars
SpecJoin == InitJoin /\ [][Next]_vars
SpecMatch == InitMatch /\ [][Next]_vars
SpecSchema == InitSchema /\ [][Next]_vars

(* --------------------------- download_csv_df -------------------------- *)

\* the largest retries of a call; main() calls with the default of line 40
MaxRetries == 4

\* the exceptions an attempt can end with, all caught at line 53
Errors == { "ConnectionError", "HTTPError", "ParserError" }

Failure(e) == [ ok |-> FALSE, err |-> e, table |-> << >> ]
Success(t) == [ ok |-> TRUE, err |-> "None", table |-> t ]

\* lines 45-52: an attempt raises an exception or parses a table
Outcomes ==
  { Failure(e) : e \in Errors } \cup { Success(t) : t \in Tables(ARows, 1) }

\* a loop that makes one attempt more than range(retries) holds
InRangeInclusive(idx, n) == idx >= 0 /\ idx <= n

\* line 43: idx in range(n)
InRange(idx, n) == idx >= 0 /\ idx < n

\* main() at line 90 calls download_csv_df
InitDownload ==
  /\ csvA = FixedA /\ csvB = FixedB /\ csvC = FixedC
  /\ size = TN_REGEX_CHUNK
  /\ colsA = needA /\ colsB = needB /\ colsC = CColumns
  /\ data_sqlite = "old" /\ index_html = "old"
  /\ Start
  /\ NoArchive
  /\ dl_pc = "loop"
  /\ retries \in 0..MaxRetries
  /\ attempt_i = 0 /\ last_err = "None"
  /\ attempts = << >> /\ dl_return = << >> /\ dl_raise = NoError
  /\ slept = 0

\* lines 43-56: one pass of the loop, ended by the return of line 52 or by the
\* handler of lines 53-56
Attempt ==
  /\ dl_pc = "loop"
  /\ InRange(attempt_i, retries)
  /\ \E o \in Outcomes :
       /\ attempts' = Append(attempts, o)
       /\ IF o.ok
            THEN /\ dl_pc' = "returned"
                 /\ dl_return' = o.table
                 /\ UNCHANGED << attempt_i, last_err, slept >>
            ELSE /\ last_err' = o.err
                 /\ slept' = slept + 2 * (attempt_i + 1)
                 /\ attempt_i' = attempt_i + 1
                 /\ UNCHANGED << dl_pc, dl_return >>
  /\ UNCHANGED << retries, dl_raise, pipeline, archive >>

\* line 57: the loop is over and nothing was returned
Exhausted ==
  /\ dl_pc = "loop"
  /\ ~InRange(attempt_i, retries)
  /\ dl_pc' = "raised"
  /\ dl_raise' = [ type |-> "RuntimeError", last_err |-> last_err ]
  /\ UNCHANGED << retries, attempt_i, last_err, attempts, dl_return, slept,
                  pipeline, archive >>

NextDownload ==
  \/ Attempt
  \/ Exhausted

SpecDownload == InitDownload /\ [][NextDownload]_vars

(* ---------------------------- down_files.py --------------------------- *)

\* the years of the run dates, a leap year among them
Years == { 2023, 2024 }

IsLeap(yr) == yr % 4 = 0 /\ ( yr % 100 # 0 \/ yr % 400 = 0 )

DaysInMonth(yr, mo) ==
  IF mo = 2 THEN ( IF IsLeap(yr) THEN 29 ELSE 28 )
  ELSE IF mo \in { 4, 6, 9, 11 } THEN 30
  ELSE 31

Date(yr, mo, dy) == [ year |-> yr, month |-> mo, day |-> dy ]

\* the values of date.today()
Dates ==
  { dt \in { Date(yr, mo, dy) : yr \in Years, mo \in 1..12, dy \in 1..31 } :
      dt.day <= DaysInMonth(dt.year, dt.month) }

\* dt - timedelta(days=1)
PrevDay(dt) ==
  IF dt.day > 1 THEN Date(dt.year, dt.month, dt.day - 1)
  ELSE IF dt.month > 1
    THEN Date(dt.year, dt.month - 1, DaysInMonth(dt.year, dt.month - 1))
  ELSE Date(dt.year - 1, 12, 31)

\* dt - timedelta(days=n)
RECURSIVE MinusDays(_, _)
MinusDays(dt, n) == IF n = 0 THEN dt ELSE MinusDays(PrevDay(dt), n - 1)

\* str(n) of an int n >= 0
RECURSIVE Str(_)
Str(n) ==
  IF n < 10 THEN << Digits[n + 1] >>
  ELSE Append(Str(n \div 10), Digits[(n % 10) + 1])

\* zeros on the left up to the width w
RECURSIVE ZeroPad(_, _)
ZeroPad(s, w) == IF Len(s) >= w THEN s ELSE ZeroPad(<< "0" >> \o s, w)

\* "%02d" % n
Format02d(n) ==
  IF n < 0 THEN << "-" >> \o Str(0 - n) ELSE ZeroPad(Str(n), 2)

\* dt.strftime('%Y-%m-%d')
Strftime(dt) ==
  ZeroPad(Str(dt.year), 4) \o << "-" >> \o ZeroPad(Str(dt.month), 2)
    \o << "-" >> \o ZeroPad(Str(dt.day), 2)

\* s.split(sep) for a separator of one character
RECURSIVE Split(_, _)
Split(s, sep) ==
  IF \E i \in 1..Len(s) : s[i] = sep
    THEN LET i == CHOOSE k \in 1..Len(s) :
                    s[k] = sep /\ \A j \in 1..(k - 1) : s[j] # sep
         IN  << SubSeq(s, 1, i - 1) >> \o Split(SubSeq(s, i + 1, Len(s)), sep)
    ELSE << s >>

\* the literals of lines 10-20, each kept as one token of the URL
resource_link ==
  << "https://open.canada.ca/data/dataset/2916fad5-ebcc-4c86-b0f3-4f619b29f412/resource/" >>
DownloadsStem ==
  << "4ebc050f-6c3c-4dfd-817e-875b2caf3ec6/download/opendataportal.siteanalytics.downloads" >>
VisitsStem ==
  << "c14ba36b-0af5-4c59-a5fd-26ca6a1ef6db/download/opendataportal.siteanalytics.visits" >>
InfoStem ==
  << "b1dfa726-7ed1-4a6b-ae49-77a200abee72/download/opendataportal.siteanalytics.info" >>
ProvinceStem ==
  << "e06f06a9-d897-4a35-9b73-4c2bc1c2d5cf/download/opendataportal.siteanalytics.provincialusagebreakdown.bilingual" >>
CountryStem ==
  << "b52ee0b2-f2be-4bc5-a27a-db93a228d38b/download/opendataportal.siteanalytics.internationalusagebreakdown.bilingual" >>
DotCsv == << ".csv" >>

\* lines 11-16: the URL of a file named by two month-year stamps
RangeUrl(stem, mon, yr) ==
  resource_link
    \o JoinWith(<< "-" >>,
                << stem, mon \o Str(DecimalValue(yr) - 1), mon \o yr \o DotCsv >>)

\* lines 17-20: the URL of a file named by one month-year stamp
MonthUrl(stem, mon, yr) == resource_link \o stem \o mon \o yr \o DotCsv

\* the script starts on any day of the years
InitArchive ==
  /\ csvA = FixedA /\ csvB = FixedB /\ csvC = FixedC
  /\ size = TN_REGEX_CHUNK
  /\ colsA = needA /\ colsB = needB /\ colsC = CColumns
  /\ data_sqlite = "old" /\ index_html = "old"
  /\ Start
  /\ NoDownload
  /\ ar_pc = "6"
  /\ today \in Dates
  /\ last_day = << >> /\ ymd = << >>
  /\ last_month = << >> /\ old_urls = NoUrls

\* line 6
SubtractDays ==
  /\ ar_pc = "6"
  /\ last_day' = MinusDays(today, today.day)
  /\ ar_pc' = "7"
  /\ UNCHANGED << today, ymd, last_month, old_urls, pipeline, download >>

\* line 7
FormatLastDay ==
  /\ ar_pc = "7"
  /\ last_day' = Strftime(last_day)
  /\ ar_pc' = "8"
  /\ UNCHANGED << today, ymd, last_month, old_urls, pipeline, download >>

\* line 8
SplitLastDay ==
  /\ ar_pc = "8"
  /\ ymd' = Split(last_day, "-")
  /\ ar_pc' = "9"
  /\ UNCHANGED << today, last_day, last_month, old_urls, pipeline, download >>

\* line 9
LastMonth ==
  /\ ar_pc = "9"
  /\ last_month' = Format02d(DecimalValue(ymd[2]) - 1)
  /\ ar_pc' = "11"
  /\ UNCHANGED << today, last_day, ymd, old_urls, pipeline, download >>

\* lines 11-20
BuildUrls ==
  /\ ar_pc = "11"
  /\ old_urls' =
       [ old_download |-> RangeUrl(DownloadsStem, last_month, ymd[1]),
         old_visit    |-> RangeUrl(VisitsStem, last_month, ymd[1]),
         old_info     |-> RangeUrl(InfoStem, last_month, ymd[1]),
         old_province |-> MonthUrl(ProvinceStem, last_month, ymd[1]),
         old_country  |-> MonthUrl(CountryStem, last_month, ymd[1]) ]
  /\ ar_pc' = "end"
  /\ UNCHANGED << today, last_day, ymd, last_month, pipeline, download >>

NextArchive ==
  \/ SubtractDays
  \/ FormatLastDay
  \/ SplitLastDay
  \/ LastMonth
  \/ BuildUrls

SpecArchive == InitArchive /\ [][NextArchive]_vars

(* ------------------------------ claims -------------------------------- *)

Aggregated == pc # "B" /\ raised # "B missing columns"
Joined == pc \notin { "B", "C" } /\ raised # "B missing columns"
Matched == pc \in { "split", "write", "html", "done" }

\* the match record m is an emission of the joined record r
IsRecordOf(m, r) ==
  /\ m.owner_org = r.owner_org
  /\ m.request_number = r.request_number
  /\ m.informal_requests_sum = r.informal_requests_sum
  /\ m.unique_identifiers = r.unique_identifiers
  /\ m.summary_en = r.summary_en
  /\ m.summary_fr = r.summary_fr

\* the state machine computes the function MatchStage
MatchStageAgrees == Matched => df_out = MatchStage(dfA, dfBC, size)

\* C1: once C is joined, dfBC has as many rows as C and its i-th row is the
\* i-th row of C, whatever B holds.
C1_JoinPreservesRows ==
  Joined =>
    /\ Len(dfBC) = Len(csvC)
    /\ \A i \in 1..Len(dfBC) :
         i <= Len(csvC) =>
           CRow(dfBC[i].owner_org, dfBC[i].request_number,
                dfBC[i].summary_en, dfBC[i].summary_fr) = csvC[i]

\* C2: the deduplicated match set of a run is the one the other chunk size
\* gives (one identifier per chunk against a single chunk of all of them).
C2_ChunkingTransparency ==
  pc = "done" =>
    Range(df_out) =
      Range(MatchStage(dfA, dfBC, IF size = 1 THEN TN_REGEX_CHUNK ELSE 1))

\* C3: for every processed owner, each non-empty lowercased identifier of the
\* owner that occurs in the haystack of one of the owner's joined records has
\* a match record of its own for that joined record.
C3_RecordPerIdentifier ==
  Matched =>
    \A n \in 1..Len(orgs) : \A i \in 1..Len(dfBC) : \A j \in 1..Len(dfA) :
      ( /\ dfBC[i].owner_org = orgs[n]
        /\ dfA[j].owner_org = orgs[n]
        /\ dfA[j].tn_lc # << >>
        /\ IsSubstring(dfA[j].tn_lc, dfBC[i].haystack) )
      => \E m \in Range(df_out) :
           /\ IsRecordOf(m, dfBC[i])
           /\ Lower(m.tracking_number) = dfA[j].tn_lc

\* C4: every match record carries an identifier of an A row of its own owner
\* and is an emission of a joined record of that same owner, and its owner is
\* present in both A and the joined table.
C4_OwnerIsolation ==
  \A m \in Range(df_out) :
    /\ m.owner_org \in { dfA[j].owner_org : j \in 1..Len(dfA) }
                         \cap { dfBC[i].owner_org : i \in 1..Len(dfBC) }
    /\ \E j \in 1..Len(dfA) :
         /\ dfA[j].owner_org = m.owner_org
         /\ dfA[j].tn_lc = Lower(m.tracking_number)
    /\ \E i \in 1..Len(dfBC) :
         /\ dfBC[i].owner_org = m.owner_org
         /\ IsRecordOf(m, dfBC[i])

\* a run that emitted a record although an identifier of another owner occurs
\* in a haystack and got no record there
C4_Witness ==
  /\ pc = "done"
  /\ Len(df_out) > 0
  /\ \E j \in 1..Len(dfA) : \E i \in 1..Len(dfBC) :
       /\ dfA[j].owner_org # dfBC[i].owner_org
       /\ dfA[j].tn_lc # << >>
       /\ IsSubstring(dfA[j].tn_lc, dfBC[i].haystack)
       /\ \A m \in Range(df_out) :
            IsRecordOf(m, dfBC[i]) => m.tracking_number # dfA[j].tracking_number

\* C5: the tracking_number of every match record is the original-cased
\* tracking_number of an A row of the same owner whose lowercased form occurs
\* in the matched record's haystack (so the lowercased text is never emitted
\* in place of an existing original), and records of one owner with the same
\* lowercased identifier all carry the same casing.
C5_CanonicalCasing ==
  \A m \in Range(df_out) :
    /\ \E j \in 1..Len(dfA) : \E i \in 1..Len(dfBC) :
         /\ dfA[j].owner_org = m.owner_org
         /\ dfA[j].tracking_number = m.tracking_number
         /\ IsRecordOf(m, dfBC[i])
         /\ IsSubstring(Lower(dfA[j].tracking_number), dfBC[i].haystack)
    /\ \A m2 \in Range(df_out) :
         ( /\ m2.owner_org = m.owner_org
           /\ Lower(m2.tracking_number) = Lower(m.tracking_number) )
         => m2.tracking_number = m.tracking_number

\* a record with a recovered casing whose owner has two casings of the
\* identifier in A
C5_Witness ==
  /\ pc = "done"
  /\ \E m \in Range(df_out) :
       /\ m.tracking_number # Lower(m.tracking_number)
       /\ \E j, k \in 1..Len(dfA) :
            /\ dfA[j].owner_org = m.owner_org
            /\ dfA[k].owner_org = m.owner_org
            /\ dfA[j].tn_lc = Lower(m.tracking_number)
            /\ dfA[k].tn_lc = dfA[j].tn_lc
            /\ dfA[j].tracking_number # dfA[k].tracking_number

\* the denylist of the classification, normalised
WeakDenylist ==
  { << "c" >>, << "1" >>, << "0" >>, << "n","a" >>, << "-" >>,
    << "r","e","d","a","c","t","e","d" >>,
    << "[","r","e","d","a","c","t","e","d","]" >>,
    << "t","b","d","-","p","m","-","0","0" >> }

\* C6: every match record is in exactly one of the weak and strong subsets,
\* weak exactly when its trimmed, lowercased tracking_number is in the denylist,
\* and the counts written satisfy weak_matches + strong_matches = matches.
C6_ClassificationPartition ==
  /\ pc \in { "write", "html", "done" } =>
       /\ \A m \in Range(df_out) :
            /\ (m \in Range(df_weak)) # (m \in Range(df_strong))
            /\ (m \in Range(df_weak))
                 <=> (Lower(Strip(m.tracking_number)) \in WeakDenylist)
       /\ Range(df_weak) \cup Range(df_strong) \subseteq Range(df_out)
       /\ Len(df_weak) + Len(df_strong) = Len(df_out)
  /\ pc = "done" =>
       /\ counts_common.matches = Len(df_out)
       /\ counts_common.weak_matches = Len(df_weak)
       /\ counts_common.strong_matches = Len(df_strong)
       /\ counts_common.weak_matches + counts_common.strong_matches
            = counts_common.matches

\* a finished run with a weak and a strong record, the weak one recognised only
\* after trimming and lowercasing
C6_Witness ==
  /\ pc = "done"
  /\ counts_common.weak_matches > 0
  /\ counts_common.strong_matches > 0
  /\ \E m \in Range(df_weak) :
       /\ Strip(m.tracking_number) # m.tracking_number
       /\ Lower(m.tracking_number) # m.tracking_number

\* the rows of B in the group k = (owner_org, Request Number)
GroupRows(k) ==
  { i \in 1..Len(csvB) : csvB[i].owner_org = k[1] /\ csvB[i].RequestNumber = k[2] }

RECURSIVE SumFinite(_)
SumFinite(I) ==
  IF I = {} THEN 0
  ELSE LET i == CHOOSE x \in I : TRUE
           p == ToNumeric(csvB[i].metric)
       IN  (IF p.k = "fin" THEN p.v ELSE 0) + SumFinite(I \ {i})

\* the sum of the parsed metric over the rows I, unparseable values as 0
ReferenceSum(I) ==
  LET hasPos == \E i \in I : ToNumeric(csvB[i].metric).k = "pinf"
      hasNeg == \E i \in I : ToNumeric(csvB[i].metric).k = "ninf"
  IN  IF hasPos /\ hasNeg THEN NaN
      ELSE IF hasPos THEN PosInf
      ELSE IF hasNeg THEN NegInf
      ELSE Fin(SumFinite(I))

\* the trimmed non-empty identifiers of the rows I, ascending, joined by "; "
ReferenceIdentifiers(I) ==
  LET S == { Strip(csvB[i].UniqueIdentifier) : i \in I } \ { << >> }
      n == Cardinality(S)
  IN  IF S = {} THEN << >>
      ELSE JoinWith(<< ";", " " >>,
                    CHOOSE f \in [ 1..n -> S ] :
                      \A a, b \in 1..n : a < b => LexLess(f[a], f[b]))

\* C7: dfB_agg has exactly one row per distinct exact-case (owner_org, Request
\* Number) pair of B, with the group's sum of the parsed metric (unparseable
\* as 0) and the group's trimmed, deduplicated, sorted, "; "-joined identifiers.
C7_AggregationReference ==
  Aggregated =>
    LET keys == { << csvB[i].owner_org, csvB[i].RequestNumber >> :
                    i \in 1..Len(csvB) }
    IN  /\ Len(dfB_agg) = Cardinality(keys)
        /\ \A k \in keys :
             \E n \in 1..Len(dfB_agg) :
               /\ dfB_agg[n].owner_org = k[1]
               /\ dfB_agg[n].RequestNumber = k[2]
               /\ \A n2 \in 1..Len(dfB_agg) :
                    ( dfB_agg[n2].owner_org = k[1]
                      /\ dfB_agg[n2].RequestNumber = k[2] ) => n2 = n
               /\ dfB_agg[n].informal_requests_sum = ReferenceSum(GroupRows(k))
               /\ dfB_agg[n].unique_identifiers
                    = ReferenceIdentifiers(GroupRows(k))

\* a group of two rows, one metric unparseable, whose two identifiers had to
\* be trimmed and reordered
C7_Witness ==
  /\ Aggregated
  /\ \E n \in 1..Len(dfB_agg) :
       LET I == GroupRows(<< dfB_agg[n].owner_org, dfB_agg[n].RequestNumber >>)
       IN  /\ Cardinality(I) = 2
           /\ \E i \in I : ToNumeric(csvB[i].metric).k = "nan"
           /\ dfB_agg[n].informal_requests_sum = Fin(2)
           /\ dfB_agg[n].unique_identifiers = << "a", ";", " ", "b" >>

\* the aggregate g is the one the row c of C joins to
Joinable(c, g) ==
  /\ g.owner_org = c.owner_org
  /\ Lower(g.RequestNumber) = Lower(c.request_number)

\* the joined record r comes from the row c of C
FromC(r, c) ==
  /\ r.owner_org = c.owner_org
  /\ r.request_number = c.request_number
  /\ r.summary_en = c.summary_en
  /\ r.summary_fr = c.summary_fr

\* the join's values, a not-a-number aggregate sum being carried as nanAs
JoinValuesHold(nanAs) ==
  LET carried(x) == IF x = NaN THEN nanAs ELSE x
      carries(r, g) == /\ r.informal_requests_sum = carried(g.informal_requests_sum)
                       /\ r.unique_identifiers = g.unique_identifiers
      unmatched(r) == /\ r.informal_requests_sum = Fin(0)
                      /\ r.unique_identifiers = << >>
  IN  /\ \A c \in Range(csvC) :
           /\ \A g \in Range(dfB_agg) :
                Joinable(c, g) =>
                  \E r \in Range(dfBC) : FromC(r, c) /\ carries(r, g)
           /\ (\A g \in Range(dfB_agg) : ~Joinable(c, g)) =>
                \E r \in Range(dfBC) : FromC(r, c) /\ unmatched(r)
      /\ \A r \in Range(dfBC) :
           \E c \in Range(csvC) :
             /\ FromC(r, c)
             /\ \/ \E g \in Range(dfB_agg) : Joinable(c, g) /\ carries(r, g)
                \/ /\ \A g \in Range(dfB_agg) : ~Joinable(c, g)
                   /\ unmatched(r)

\* C8 as stated: a row of C joins exactly the aggregates of its owner whose
\* request number is equal after lowercasing, the joined record carries the
\* aggregate's sum and identifiers and C's request_number, and a row with no
\* such aggregate gets 0 and "".
C8_JoinValuesAsStated == Joined => JoinValuesHold(NaN)

\* C8 amended: the same, a not-a-number aggregate sum being carried as 0.
C8_JoinValues == Joined => JoinValuesHold(Fin(0))

\* a row of C joined across letter case to an aggregate whose sum is not a
\* number, carried as 0 with the aggregate's identifiers
C8_Witness ==
  /\ Joined
  /\ \E r \in Range(dfBC) : \E g \in Range(dfB_agg) :
       /\ Joinable(r, g)
       /\ g.RequestNumber # r.request_number
       /\ g.informal_requests_sum = NaN
       /\ r.informal_requests_sum = Fin(0)
       /\ r.unique_identifiers = g.unique_identifiers
       /\ r.unique_identifiers # << >>

\* C9: for every processed owner, a joined record of the owner whose haystack
\* contains, anywhere, the lowercased form of a non-empty identifier of the
\* owner has at least one match record.
C9_SubstringMatch ==
  Matched =>
    \A n \in 1..Len(orgs) : \A i \in 1..Len(dfBC) : \A j \in 1..Len(dfA) :
      ( /\ dfBC[i].owner_org = orgs[n]
        /\ dfA[j].owner_org = orgs[n]
        /\ dfA[j].tn_lc # << >>
        /\ IsSubstring(dfA[j].tn_lc, dfBC[i].haystack) )
      => \E m \in Range(df_out) : IsRecordOf(m, dfBC[i])

\* a record emitted for an identifier that occurs only inside a longer token
C9_Witness ==
  /\ pc = "done"
  /\ \E i \in 1..Len(dfBC) : \E j \in 1..Len(dfA) :
       LET h == dfBC[i].haystack
           t == dfA[j].tn_lc
       IN  /\ dfBC[i].owner_org = dfA[j].owner_org
           /\ t # << >>
           /\ IsSubstring(t, h)
           /\ \A p \in 1..Len(h) :
                MatchesAt(h, t, p) =>
                  /\ p > 1 /\ h[p - 1] # " "
                  /\ p + Len(t) <= Len(h) /\ h[p + Len(t)] # " "
           /\ \E m \in Range(df_out) :
                IsRecordOf(m, dfBC[i]) /\ m.tracking_number = dfA[j].tracking_number

\* C10: every row of the strong-matches table has a finite
\* informal_requests_sum.
C10_FiniteSums ==
  \A r \in Range(strong_matches) : IsFinite(r.informal_requests_sum)

\* C11: a B lacking a required column ends the build in the error state at
\* its check, before any row of B is processed; so does an A lacking one, at
\* its own check, before any row of A is processed; in the error state the
\* artifacts are as the build found them, neither deleted nor written; with
\* the columns of A and B present no column missing from C raises an error,
\* and every cell of a column C lacks is the empty string.
C11_SchemaErrors ==
  /\ ( ~(needB \subseteq colsB) /\ pc # "B" ) =>
       /\ pc = "error"
       /\ raised = "B missing columns"
       /\ dfB = << >> /\ dfB_agg = << >> /\ dfC = << >> /\ dfA = << >>
  /\ ( needB \subseteq colsB /\ ~(needA \subseteq colsA)
       /\ pc \notin { "B", "C", "A" } ) =>
       /\ pc = "error"
       /\ raised = "A missing columns"
       /\ dfA = << >> /\ orgs = << >> /\ results = << >>
  /\ pc = "error" =>
       /\ data_sqlite \in { "absent", "old" }
       /\ index_html \in { "absent", "old" }
       /\ strong_matches = << >> /\ weak_matches = << >>
       /\ counts_common = NoCounts
  /\ ( needB \subseteq colsB /\ needA \subseteq colsA ) =>
       pc # "error" /\ raised = ""
  /\ ( needB \subseteq colsB /\ pc \notin { "B", "C" } ) =>
       /\ Len(dfC) = Len(csvC)
       /\ \A i \in 1..Len(dfC) : \A c \in CColumns :
            dfC[i][c] = IF c \in colsC THEN csvC[i][c] ELSE << >>

\* a build that got past a C lacking a column and ended at the check of A,
\* the artifacts of an earlier build still in place
C11_Witness ==
  /\ pc = "error"
  /\ raised = "A missing columns"
  /\ colsC # CColumns
  /\ Len(dfBC) > 0
  /\ data_sqlite = "old"
  /\ index_html = "old"

\* no non-empty identifier of A occurs in the haystack of a row of C of the
\* same owner: no common owner, only empty identifiers, no row, or no hit
EmptyInputs ==
  /\ needB \subseteq colsB
  /\ needA \subseteq colsA
  /\ \A a \in Range(csvA) : \A c \in Range(csvC) :
       ( /\ a.owner_org = CCell(c, "owner_org", colsC)
         /\ a.tracking_number # << >> )
       => ~IsSubstring(Lower(a.tracking_number),
                       Lower(CCell(c, "summary_en", colsC) \o << " " >>
                               \o CCell(c, "summary_fr", colsC)))

\* C12: when no identifier can match, the build raises no error, can always
\* take its next step until it is done, and ends with both artifacts written,
\* no strong row, no weak row and matches = weak_matches = strong_matches = 0.
C12_EmptyResults ==
  EmptyInputs =>
    /\ pc # "error" /\ raised = ""
    /\ pc = "done" \/ ENABLED Next
    /\ df_out = << >> /\ df_weak = << >> /\ df_strong = << >>
    /\ strong_matches = << >> /\ weak_matches = << >>
    /\ counts_common.matches = 0
    /\ counts_common.weak_matches = 0
    /\ counts_common.strong_matches = 0
    /\ pc = "done" =>
         /\ data_sqlite = "new" /\ index_html = "new"
         /\ counts_common.A_rows = Len(csvA)
         /\ counts_common.C_rows = Len(csvC)

\* a finished build whose loop ran over an owner with identifiers and
\* joined records and found nothing
C12_Witness ==
  /\ pc = "done"
  /\ EmptyInputs
  /\ Len(orgs) > 0
  /\ Len(tn_list) > 0
  /\ Len(bc_org) > 0
  /\ counts_common.matches = 0

\* a finished build with an owner skipped for having only empty identifiers
C12_SkippedOwner ==
  /\ pc = "done"
  /\ EmptyInputs
  /\ Len(orgs) > 0
  /\ Len(a_org) > 0
  /\ Len(tn_list) = 0

\* C13: the final match output holds no two rows equal in all seven fields.
C13_NoDuplicates ==
  Matched =>
    \A i, j \in 1..Len(df_out) : i # j => df_out[i] # df_out[j]

\* a final output from which a duplicate was dropped: two casings of one
\* identifier of an owner gave, in two chunks, the same record twice
C13_Witness ==
  /\ pc = "done"
  /\ Len(results) > 0
  /\ Len(Concat(results)) > Len(df_out)
  /\ \E j, k \in 1..Len(dfA) :
       /\ dfA[j].owner_org = dfA[k].owner_org
       /\ dfA[j].tn_lc = dfA[k].tn_lc
       /\ dfA[j].tracking_number # dfA[k].tracking_number
       /\ \E m \in Range(df_out) :
            /\ m.owner_org = dfA[j].owner_org
            /\ Lower(m.tracking_number) = dfA[j].tn_lc

AllFailed == \A k \in 1..Len(attempts) : ~attempts[k].ok

\* C14: download_csv_df makes at most retries attempts; it returns exactly
\* when an attempt succeeded, with that attempt's table, and that attempt is
\* the first success and the last attempt made; it raises RuntimeError exactly
\* when retries attempts were made and all of them failed, and until then it
\* goes on to the next attempt.
C14_BoundedRetry ==
  dl_pc # "idle" =>
    /\ Len(attempts) <= retries
    /\ \A k \in 1..(Len(attempts) - 1) : ~attempts[k].ok
    /\ dl_pc = "returned" <=> ( attempts # << >> /\ attempts[Len(attempts)].ok )
    /\ dl_pc = "returned" =>
         /\ dl_return = attempts[Len(attempts)].table
         /\ dl_raise = NoError
    /\ dl_pc = "raised" =>
         /\ dl_raise.type = "RuntimeError"
         /\ Len(attempts) = retries
         /\ AllFailed
    /\ dl_pc = "loop" =>
         /\ AllFailed
         /\ dl_raise = NoError
         /\ Len(attempts) < retries => ( ENABLED Attempt /\ ~ENABLED Exhausted )
         /\ Len(attempts) = retries => ( ENABLED Exhausted /\ ~ENABLED Attempt )

\* a table returned by the third attempt of a call that had one more to make
C14_Witness ==
  /\ dl_pc = "returned"
  /\ Len(attempts) = 3
  /\ retries = 4
  /\ dl_return # << >>
  /\ ~attempts[1].ok /\ ~attempts[2].ok

\* RuntimeError after four failed attempts
C14_Raised ==
  /\ dl_pc = "raised"
  /\ retries = 4
  /\ Len(attempts) = 4
  /\ dl_raise = [ type |-> "RuntimeError", last_err |-> attempts[4].err ]

\* the two-digit strings 01 .. 12
CalendarMonths ==
  { mm \in { << a, b >> : a \in { "0", "1" }, b \in DOMAIN DigitVal } :
      DecimalValue(mm) \in 1..12 }

\* the month stamp of a URL: the two characters before the four of the year
\* and the token ".csv"
MonthStamp(url) == SubSeq(url, Len(url) - 6, Len(url) - 5)

\* C15: for every run date the month string derived at line 9 and the month
\* stamp of each of the five archive URLs is a calendar month, 01 to 12.
C15_ValidMonth ==
  /\ ar_pc \in { "11", "end" } => last_month \in CalendarMonths
  /\ ar_pc = "end" =>
       \A u \in { "old_download", "old_visit", "old_info",
                   "old_province", "old_country" } :
         /\ MonthStamp(old_urls[u]) = last_month
         /\ MonthStamp(old_urls[u]) \in CalendarMonths

\* the URLs of a run in February: month stamp 00
C15_February ==
  /\ ar_pc = "end"
  /\ today.month = 2
  /\ last_month = << "0", "0" >>
  /\ MonthStamp(old_urls.old_download) = << "0", "0" >>
  /\ MonthStamp(old_urls.old_country) = << "0", "0" >>

\* in every other month the stamp is a calendar month, two months back
C15_OtherMonths ==
  ( ar_pc \in { "11", "end" } /\ today.month # 2 ) =>
    /\ last_month \in CalendarMonths
    /\ DecimalValue(last_month) = ( (today.month + 9) % 12 ) + 1

====
